---- MODULE Spec2Model ----
(***************************************************************************)
(* A model of the NerdsIQ retrieval-augmented query pipeline:              *)
(*   - CacheService      (backend/app/services/cache_service.py)           *)
(*   - RAGService        (backend/app/services/rag_service.py)             *)
(*   - POST /query       (backend/app/routers/chat.py)                     *)
(*   - chunk_text        (backend/scripts/index_documents.py)              *)
(*   - POST /login       (backend/app/routers/auth.py)                     *)
(* Strings are sequences of one-character strings.  A Python dict is a     *)
(* function whose DOMAIN is the set of keys present.  Python's None is the *)
(* record None.  Wall-clock time is the integer variable now (seconds).    *)
(***************************************************************************)
EXTENDS Integers, Sequences, FiniteSets, TLC

VARIABLES
    cache,      \* CacheService._cache: key -> [data, timestamp] (class level, shared)
    now,        \* time.time()
    ticks,      \* number of clock advances so far (bounds the run)
    ret,        \* result of the most recent direct CacheService / memory call
    lastSet,    \* history: per key, the most recent set since the last invalidation
    memories,   \* RAGService._memories of each RAGService instance
    appended,   \* history: per instance and session, exchanges appended since creation/clear
    tasks,      \* the query coroutines: position, arguments, locals, result,
                \* and (history) the stages run so far, in order
    started,    \* number of queries started so far (bounds the run)
    spell,      \* key determinism: the query as first spelled, and as respelled
    dd,         \* source collection loop of query (results, position, sources)
    db,         \* relational store: conversations and their messages
    completed,  \* history: per session, the last exchange a /query request completed
    ck,         \* chunk_text: arguments, tokens, loop position, chunks so far
    auth        \* the users table and the outcome of the last login attempt

vars == <<cache, now, ticks, ret, lastSet, memories, appended, tasks, started,
          spell, dd, db, completed, ck, auth>>

None == [none |-> TRUE]

(***************************************************************************)
(* Bounds of the model.                                                    *)
(***************************************************************************)
MaxTicks == 4
MaxQueries == 2
MaxQueryLen == 3
MaxAppends == 7
MaxRequests == 2
MaxTextLen == 5      \* characters of a text given to chunk_text
MaxChunkSize == 3    \* largest chunk_size and overlap tried
MaxChunks == 6       \* chunks after which a run of chunk_text is cut off

(***************************************************************************)
(* Program constants.                                                      *)
(***************************************************************************)
_ttl_seconds == 3600
_memory_window == 5
TOP_K == 5

(***************************************************************************)
(* Strings.                                                                *)
(***************************************************************************)
\* the characters of the model: ASCII letters, the space, a sign, and the
\* long s (U+017F, written "long-s"), a lowercase letter whose uppercase is S
Alphabet == {"a", "A", "s", "S", "long-s", " ", "?"}
Whitespace == {" "}

\* str.lower() on one character: the long s is lowercase already
LowerChar(c) == CASE c = "A" -> "a" [] c = "S" -> "s" [] OTHER -> c

\* str.upper() on one character
UpperChar(c) ==
    CASE c = "a" -> "A" [] c = "s" -> "S" [] c = "long-s" -> "S" [] OTHER -> c

\* str.lower()
lower(s) == [i \in 1..Len(s) |-> LowerChar(s[i])]

RECURSIVE lstrip(_)
lstrip(s) == IF s # <<>> /\ Head(s) \in Whitespace THEN lstrip(Tail(s)) ELSE s

RECURSIVE rstrip(_)
rstrip(s) ==
    IF s # <<>> /\ s[Len(s)] \in Whitespace
    THEN rstrip(SubSeq(s, 1, Len(s) - 1)) ELSE s

\* str.strip()
strip(s) == rstrip(lstrip(s))

\* position of a character in the alphabet, from 1
Code(c) ==
    CASE c = "a" -> 1 [] c = "A" -> 2 [] c = "s" -> 3 [] c = "S" -> 4
      [] c = "long-s" -> 5 [] c = " " -> 6 [] OTHER -> 7

HashBase == Cardinality(Alphabet) + 1

\* hashlib.sha256(bytes).hexdigest()[:32]: a digest that is a function of the
\* bytes alone; here the bytes read as a numeral, which is collision free on
\* the strings of the model (the real digest collides with negligible
\* probability).
RECURSIVE sha256_hex32(_)
sha256_hex32(s) ==
    IF s = <<>> THEN 0 ELSE Code(Head(s)) + HashBase * sha256_hex32(Tail(s))

\* a plausible slip: the query is trimmed but not lowercased
generate_key_no_lower(query) == sha256_hex32(strip(query))

\* CacheService.generate_key
generate_key(query) == sha256_hex32(strip(lower(query)))

(***************************************************************************)
(* Python dicts.                                                           *)
(***************************************************************************)
\* del d[k]
DictRemove(d, k) == [x \in DOMAIN d \ {k} |-> d[x]]

\* d[k] = v
DictPut(d, k, v) == [x \in DOMAIN d \cup {k} |-> IF x = k THEN v ELSE d[x]]

\* {}
EmptyDict == <<>>

(***************************************************************************)
(* The inputs of the model.                                                *)
(***************************************************************************)
\* the questions asked; the first two differ in case and outer whitespace only
Questions == {<<"a">>, <<"A", " ">>, <<"s">>}
Sessions == {"s1", "s2"}
Answers == {"a1", "a2"}
CacheKeys == {generate_key(q) : q \in Questions}
CacheData == {[answer |-> "a1", sources |-> <<>>],
              [answer |-> "a2", sources |-> <<"A">>]}
\* clock advances: one second, or one second short of the TTL
TickSteps == {1, _ttl_seconds - 1}
\* the clock readings at which queries are made: an entry written at the
\* first is exactly ttl seconds old at the second and expired at the third
QueryClock == {0, _ttl_seconds, 2 * _ttl_seconds + 1}

(***************************************************************************)
(* CacheService.                                                           *)
(***************************************************************************)
\* a plausible slip: an entry exactly ttl seconds old is already expired
get_expire_early(c, key, t) ==
    IF key \notin DOMAIN c THEN [cache |-> c, value |-> None]
    ELSE IF t - c[key].timestamp >= _ttl_seconds
         THEN [cache |-> DictRemove(c, key), value |-> None]
         ELSE [cache |-> c, value |-> c[key].data]

\* a plausible slip: a read sweeps every expired entry, not only its own
get_sweep(c, key, t) ==
    LET live == {k \in DOMAIN c : t - c[k].timestamp <= _ttl_seconds}
        swept == [k \in live |-> c[k]]
    IN  IF key \in live THEN [cache |-> swept, value |-> c[key].data]
        ELSE [cache |-> swept, value |-> None]

\* CacheService.get at time t: the cache afterwards and the value returned
get(c, key, t) ==
    IF key \notin DOMAIN c THEN [cache |-> c, value |-> None]
    ELSE IF t - c[key].timestamp > _ttl_seconds
         THEN [cache |-> DictRemove(c, key), value |-> None]
         ELSE [cache |-> c, value |-> c[key].data]

\* CacheService.set at time t
set(c, key, data, t) == DictPut(c, key, [data |-> data, timestamp |-> t])

\* a plausible slip: del without the membership test raises KeyError
invalidate_unguarded(c, key) ==
    IF key \in DOMAIN c THEN [cache |-> DictRemove(c, key), raised |-> FALSE]
    ELSE [cache |-> c, raised |-> TRUE]

\* CacheService.invalidate: the cache afterwards, and whether it raised
invalidate(c, key) ==
    IF key \in DOMAIN c THEN [cache |-> DictRemove(c, key), raised |-> FALSE]
    ELSE [cache |-> c, raised |-> FALSE]

\* CacheService.invalidate_all
invalidate_all(c) == EmptyDict

\* history kept beside the cache: the most recent set on a key, and whether an
\* explicit invalidation has happened since
NoteSet(ls, key, data, t) ==
    [ls EXCEPT ![key] = [data |-> data, at |-> t, live |-> TRUE]]

NoteInvalidate(ls, keys) ==
    [k \in DOMAIN ls |->
        IF k \in keys /\ ls[k] # None THEN [ls[k] EXCEPT !.live = FALSE] ELSE ls[k]]

Ret(op, key, value, raised) ==
    [op |-> op, key |-> key, value |-> value, raised |-> raised, at |-> now]

\* a caller awaits cache.get(key)
CacheGetCall(key) ==
    LET r == get(cache, key, now) IN
    /\ cache' = r.cache
    /\ ret' = Ret("get", key, r.value, FALSE)
    /\ UNCHANGED <<now, ticks, lastSet, memories, appended, tasks, started,
                   spell, dd, db, completed, ck, auth>>

\* a caller awaits cache.set(key, data)
CacheSetCall(key, data) ==
    /\ cache' = set(cache, key, data, now)
    /\ lastSet' = NoteSet(lastSet, key, data, now)
    /\ ret' = Ret("set", key, None, FALSE)
    /\ UNCHANGED <<now, ticks, memories, appended, tasks, started,
                   spell, dd, db, completed, ck, auth>>

\* a caller awaits cache.invalidate(key)
CacheInvalidateCall(key) ==
    LET r == invalidate(cache, key) IN
    /\ cache' = r.cache
    /\ lastSet' = NoteInvalidate(lastSet, {key})
    /\ ret' = Ret("invalidate", key, None, r.raised)
    /\ UNCHANGED <<now, ticks, memories, appended, tasks, started,
                   spell, dd, db, completed, ck, auth>>

\* a caller awaits cache.invalidate_all()
CacheInvalidateAllCall ==
    /\ cache' = invalidate_all(cache)
    /\ lastSet' = NoteInvalidate(lastSet, DOMAIN lastSet)
    /\ ret' = Ret("invalidate_all", 0, None, FALSE)
    /\ UNCHANGED <<now, ticks, memories, appended, tasks, started,
                   spell, dd, db, completed, ck, auth>>

\* wall-clock time passes
Tick(d) ==
    /\ ticks < MaxTicks
    /\ now' = now + d
    /\ ticks' = ticks + 1
    /\ ret' = Ret("tick", 0, None, FALSE)
    /\ UNCHANGED <<cache, lastSet, memories, appended, tasks, started,
                   spell, dd, db, completed, ck, auth>>

(***************************************************************************)
(* RAGService: session memory.                                             *)
(***************************************************************************)
\* the coroutines that may run at once, and the RAGService instances: 0 is the
\* one built at start-up, t the one built by the request of task t
Tasks == {1, 2}
Instances == {0} \cup Tasks

Exchange(user_msg, assistant_msg) == [user |-> user_msg, assistant |-> assistant_msg]

\* memory[-k:]
LastK(memory, k) ==
    IF Len(memory) > k THEN SubSeq(memory, Len(memory) - k + 1, Len(memory))
    ELSE memory

\* RAGService._get_memory: the store afterwards (the list returned is the
\* store's entry for session_id)
_get_memory(mems, session_id) ==
    IF session_id \notin DOMAIN mems THEN DictPut(mems, session_id, <<>>) ELSE mems

\* a plausible slip: the window is cut from the front, keeping the oldest
_add_to_memory_keep_oldest(mems, session_id, user_msg, assistant_msg) ==
    LET m1 == _get_memory(mems, session_id)
        memory == Append(m1[session_id], Exchange(user_msg, assistant_msg))
    IN  IF Len(memory) > _memory_window
        THEN DictPut(m1, session_id, SubSeq(memory, 1, _memory_window))
        ELSE DictPut(m1, session_id, memory)

\* a plausible slip: the exchange is appended twice
_add_to_memory_twice(mems, session_id, user_msg, assistant_msg) ==
    LET m1 == _get_memory(mems, session_id)
        memory == m1[session_id] \o << Exchange(user_msg, assistant_msg),
                                       Exchange(user_msg, assistant_msg) >>
    IN  DictPut(m1, session_id, LastK(memory, _memory_window))

\* RAGService._add_to_memory: the store afterwards
_add_to_memory(mems, session_id, user_msg, assistant_msg) ==
    LET m1 == _get_memory(mems, session_id)
        memory == Append(m1[session_id], Exchange(user_msg, assistant_msg))
    IN  IF Len(memory) > _memory_window
        THEN DictPut(m1, session_id, LastK(memory, _memory_window))
        ELSE DictPut(m1, session_id, memory)

\* RAGService.clear_session: the store afterwards
clear_session(mems, session_id) ==
    IF session_id \in DOMAIN mems THEN DictRemove(mems, session_id) ELSE mems

RECURSIVE HistoryLines(_)
HistoryLines(memory) ==
    IF memory = <<>> THEN <<>>
    ELSE << <<"User: ", Head(memory).user>>,
            <<"Assistant: ", Head(memory).assistant>> >> \o HistoryLines(Tail(memory))

\* RAGService._format_history: the lines of the text, in order
_format_history(memory) ==
    IF memory = <<>> THEN << <<"No previous conversation.">> >>
    ELSE HistoryLines(memory)

RECURSIVE TotalLen(_, _)
TotalLen(lists, keys) ==
    IF keys = {} THEN 0
    ELSE LET k == CHOOSE x \in keys : TRUE
         IN  Len(lists[k]) + TotalLen(lists, keys \ {k})

\* a caller invokes _add_to_memory on the RAGService instance 0
AddToMemoryCall(session_id, user_msg, assistant_msg) ==
    /\ TotalLen(appended[0], Sessions) < MaxAppends
    /\ memories' = [memories EXCEPT
                      ![0] = _add_to_memory(@, session_id, user_msg, assistant_msg)]
    /\ appended' = [appended EXCEPT
                      ![0][session_id] = Append(@, Exchange(user_msg, assistant_msg))]
    /\ UNCHANGED <<cache, now, ticks, ret, lastSet, tasks, started, spell, dd, db,
                   completed, ck, auth>>

\* a caller invokes _get_memory on the RAGService instance 0
GetMemoryCall(session_id) ==
    /\ memories' = [memories EXCEPT ![0] = _get_memory(@, session_id)]
    /\ UNCHANGED <<cache, now, ticks, ret, lastSet, appended, tasks, started,
                   spell, dd, db, completed, ck, auth>>

\* a caller invokes clear_session on the RAGService instance 0
ClearSessionCall(session_id) ==
    /\ memories' = [memories EXCEPT ![0] = clear_session(@, session_id)]
    /\ appended' = [appended EXCEPT ![0][session_id] = <<>>]
    /\ UNCHANGED <<cache, now, ticks, ret, lastSet, tasks, started, spell, dd, db,
                   completed, ck, auth>>

(***************************************************************************)
(* RAGService.query: context assembly (step 4).                            *)
(***************************************************************************)
\* the source_url values of the model: the empty string, a whitespace-only
\* string (truthy in Python) and three URLs
Urls == {"", " ", "A", "B", "C"}

\* a point of the vector index with a payload
Point(url) ==
    [payload |-> [text |-> "t", source_url |-> url, source_name |-> "n"]]

\* a point whose payload is None
BarePoint == [payload |-> None]

Points == {Point(u) : u \in Urls} \cup {BarePoint}

\* payload.get("source_url", "") with payload = result.payload or {}
SourceUrlOf(result) ==
    IF result.payload = None THEN "" ELSE result.payload.source_url

\* the part "[From: {source_name}]\n{text}" of one result
ContextPartOf(result) ==
    IF result.payload = None THEN [from |-> "Unknown", text |-> ""]
    ELSE [from |-> result.payload.source_name, text |-> result.payload.text]

InSeq(x, seq) == \E i \in 1..Len(seq) : seq[i] = x

\* a plausible slip: the blank test is missing
collect_keep_blank(acc, result) ==
    LET source_url == SourceUrlOf(result) IN
    [context_parts |-> Append(acc.context_parts, ContextPartOf(result)),
     sources |-> IF ~InSeq(source_url, acc.sources)
                 THEN Append(acc.sources, source_url) ELSE acc.sources]

\* a plausible slip: a repeated URL moves to the end (last occurrence wins)
collect_last_wins(acc, result) ==
    LET source_url == SourceUrlOf(result)
        others == SelectSeq(acc.sources, LAMBDA u : u # source_url)
    IN
    [context_parts |-> Append(acc.context_parts, ContextPartOf(result)),
     sources |-> IF source_url # "" THEN Append(others, source_url) ELSE acc.sources]

\* one iteration of the loop over search_results
collect(acc, result) ==
    LET source_url == SourceUrlOf(result) IN
    [context_parts |-> Append(acc.context_parts, ContextPartOf(result)),
     sources |-> IF source_url # "" /\ ~InSeq(source_url, acc.sources)
                 THEN Append(acc.sources, source_url) ELSE acc.sources]

EmptyAcc == [context_parts |-> <<>>, sources |-> <<>>]

\* the whole loop
RECURSIVE collect_all(_, _)
collect_all(acc, results) ==
    IF results = <<>> THEN acc
    ELSE collect_all(collect(acc, Head(results)), Tail(results))

\* a plausible slip: the join of no parts, the empty text, is the context
context_of_no_placeholder(context_parts) == context_parts

\* "\n\n---\n\n".join(context_parts) if context_parts else the placeholder
context_of(context_parts) ==
    IF context_parts # <<>> THEN context_parts
    ELSE << [from |-> "", text |-> "No relevant documents found."] >>

(***************************************************************************)
(* RAGService.query.  The coroutine runs without interruption between two  *)
(* suspension points: the awaits of the embedding call and of the model    *)
(* call.  cache.get, cache.set and the vector search do not suspend.       *)
(***************************************************************************)
\* what the vector index may answer: a list of at most TOP_K points
SearchOutcomes ==
    { <<>>,
      << Point("B"), Point(""), BarePoint, Point("A"), Point("B") >> }

IdleTask ==
    [pc |-> "idle", via |-> "direct", rag |-> 0, user |-> "", conversation |-> 0,
     question |-> <<>>, session_id |-> "", cache_key |-> 0, hit |-> FALSE,
     results |-> <<>>, context |-> <<>>, sources |-> <<>>, history |-> <<>>,
     answer |-> "", result |-> None, failed_at |-> "",
     embed_calls |-> 0, search_calls |-> 0, llm_calls |-> 0, prior |-> None,
     trace |-> <<>>, created |-> FALSE]

\* Python truthiness of a value that is None or a dict
Truthy(v) == v # None /\ DOMAIN v # {}

\* a plausible slip: the cached value is looked up but not used
query_enter_ignore_cache(rec, value) ==
    [rec EXCEPT !.cache_key = generate_key(rec.question),
                !.pc = "embed", !.embed_calls = 1,
                !.trace = <<"cache_lookup", "embed">>]

\* query up to its first suspension (steps 1 and 2): the task afterwards.
\* rec carries the arguments; value is what cache.get returned.
query_enter(rec, value) ==
    LET r0 == [rec EXCEPT !.cache_key = generate_key(rec.question),
                          !.trace = <<"cache_lookup">>]
    IN
    IF Truthy(value)
    THEN IF {"answer", "sources"} \subseteq DOMAIN value
         THEN [r0 EXCEPT !.pc = "returned", !.hit = TRUE,
                         !.answer = value.answer, !.sources = value.sources,
                         !.result = [answer |-> value.answer,
                                     sources |-> value.sources]]
         ELSE [r0 EXCEPT !.pc = "raised", !.hit = TRUE, !.failed_at = "cache"]
    ELSE [r0 EXCEPT !.pc = "embed", !.embed_calls = 1,
                    !.trace = Append(@, "embed")]

\* query from the embedding's return to the model call (steps 3 to 6), when
\* the vector search answers results: the task afterwards
query_assemble(rec, results, mems) ==
    LET acc == collect_all(EmptyAcc, results)
        memory == _get_memory(mems, rec.session_id)[rec.session_id]
    IN  [rec EXCEPT !.pc = "llm", !.search_calls = 1, !.llm_calls = 1,
                    !.results = results,
                    !.context = context_of(acc.context_parts),
                    !.sources = acc.sources,
                    !.history = _format_history(memory),
                    !.created = rec.session_id \notin DOMAIN mems,
                    !.trace = @ \o <<"search", "context", "history", "model">>]

\* the locals of query are gone once it has returned or raised
Unwind(rec) ==
    [rec EXCEPT !.results = <<>>, !.context = <<>>, !.history = <<>>,
                !.created = FALSE]

\* a plausible slip: the result is cached before the memory is updated
query_complete_cache_first(rec, answer) ==
    Unwind([rec EXCEPT !.pc = "returned", !.answer = answer,
                       !.result = [answer |-> answer, sources |-> rec.sources],
                       !.trace = @ \o <<"cache_write", "memory">>])

\* query after the model answered (steps 7 and 8 and the return)
query_complete(rec, answer) ==
    Unwind([rec EXCEPT !.pc = "returned", !.answer = answer,
                       !.result = [answer |-> answer, sources |-> rec.sources],
                       !.trace = @ \o <<"memory", "cache_write">>])

\* query raising out of one of its stages
query_raise(rec, stage) ==
    Unwind([rec EXCEPT !.pc = "raised", !.failed_at = stage, !.sources = <<>>])

(***************************************************************************)
(* The relational store and POST /query (routers/chat.py).                 *)
(***************************************************************************)
Users == {"u1", "u2"}

\* json.dumps(value): a text, here a record that holds the value, so that a
\* text is told from the value it encodes; json.loads reads it back
json_dumps(value) == [json |-> value]

json_loads(text) == text.json

\* a value of an Optional field that is not None
Some(value) == [value |-> value]

\* select(Conversation).where(session_id == ..).where(user_id == ..)
Matching(d, user, session_id) ==
    {i \in 1..Len(d.conversations) :
        /\ d.conversations[i].session_id = session_id
        /\ d.conversations[i].user_id = user}

\* db.add(Conversation(user_id, session_id)); db.flush()
AddConversation(d, user, session_id) ==
    [d EXCEPT !.conversations =
        Append(@, [user_id |-> user, session_id |-> session_id])]

\* db.add(Message(conversation_id, role, content, sources)); created_at is
\* the database's clock when the row is inserted (server_default now())
AddMessage(d, conversation, role, content, sources) ==
    [d EXCEPT !.messages =
        Append(@, [conversation_id |-> conversation, role |-> role,
                   content |-> content, sources |-> sources,
                   created_at |-> now])]

\* a plausible slip: the status tells the stage that failed
api_outcome_by_stage(rec) ==
    IF rec.via # "api" THEN rec
    ELSE IF rec.pc = "returned" THEN [rec EXCEPT !.pc = "responded"]
    ELSE IF rec.pc = "raised"
    THEN [rec EXCEPT !.pc = IF rec.failed_at = "llm" THEN "http502"
                            ELSE "http500",
                     !.result = None]
    ELSE rec

\* query_rag after rag_service.query returned or raised (lines 73 to 92)
api_outcome(rec) ==
    IF rec.via # "api" THEN rec
    ELSE IF rec.pc = "returned" THEN [rec EXCEPT !.pc = "responded"]
    ELSE IF rec.pc = "raised" THEN [rec EXCEPT !.pc = "http500", !.result = None]
    ELSE rec

\* a plausible slip: an answer that came from the cache is returned without
\* being stored
api_store_model_only(d, rec) ==
    IF rec.via = "api" /\ rec.pc = "returned" /\ ~rec.hit
    THEN AddMessage(d, rec.conversation, "assistant", rec.answer,
                    IF rec.sources # <<>> THEN json_dumps(rec.sources) ELSE None)
    ELSE d

\* the store after the same lines: the assistant message is added on success
api_store(d, rec) ==
    IF rec.via = "api" /\ rec.pc = "returned"
    THEN AddMessage(d, rec.conversation, "assistant", rec.answer,
                    IF rec.sources # <<>> THEN json_dumps(rec.sources) ELSE None)
    ELSE d

\* history: the last exchange a /query request completed by a model call
NoteCompleted(cp, rec) ==
    IF rec.via = "api" /\ rec.pc = "returned" /\ ~rec.hit
    THEN [cp EXCEPT ![rec.session_id] = Exchange(rec.question, rec.answer)]
    ELSE cp

\* the task, the store d and the history once a step of query left the task
\* as rec
Settle(t, rec, d) ==
    /\ tasks' = [tasks EXCEPT ![t] = api_outcome(rec)]
    /\ db' = api_store(d, rec)
    /\ completed' = NoteCompleted(completed, rec)

Resting ==
    {"idle", "returned", "raised", "responded", "http400", "http422", "http500"}

(***************************************************************************)
(* The steps of RAGService.query.                                          *)
(***************************************************************************)
\* a plausible slip: the cache is consulted only for a session that has a
\* memory
CallQuery_known_session(t, question, session_id) ==
    /\ tasks[t].pc \in Resting
    /\ started < MaxQueries
    /\ started' = started + 1
    /\ LET r == IF session_id \in DOMAIN memories[0]
                THEN get(cache, generate_key(question), now)
                ELSE [cache |-> cache, value |-> None]
           rec == [IdleTask EXCEPT !.question = question,
                                   !.session_id = session_id]
       IN  /\ cache' = r.cache
           /\ Settle(t, query_enter(rec, r.value), db)
    /\ UNCHANGED <<now, ticks, ret, lastSet, memories, appended, spell, dd, ck, auth>>

\* a caller awaits query(question, session_id) on the RAGService instance 0:
\* the cache lookup, then a return (hit) or the embedding call (miss)
CallQuery(t, question, session_id) ==
    /\ tasks[t].pc \in Resting
    /\ started < MaxQueries
    /\ started' = started + 1
    /\ LET r == get(cache, generate_key(question), now)
           rec == [IdleTask EXCEPT !.question = question,
                                   !.session_id = session_id]
       IN  /\ cache' = r.cache
           /\ Settle(t, query_enter(rec, r.value), db)
    /\ UNCHANGED <<now, ticks, ret, lastSet, memories, appended, spell, dd, ck, auth>>

\* the embedding call returns; the vector search answers; context and
\* history are assembled and the model is called
EmbedReturns(t) ==
    /\ tasks[t].pc = "embed"
    /\ \E results \in SearchOutcomes :
         Settle(t, query_assemble(tasks[t], results, memories[tasks[t].rag]), db)
    /\ memories' = [memories EXCEPT
                      ![tasks[t].rag] = _get_memory(@, tasks[t].session_id)]
    /\ UNCHANGED <<cache, now, ticks, ret, lastSet, appended, started, spell, dd, ck, auth>>

\* the embedding call raises
EmbedRaises(t) ==
    /\ tasks[t].pc = "embed"
    /\ Settle(t, query_raise(tasks[t], "embed"), db)
    /\ UNCHANGED <<cache, now, ticks, ret, lastSet, memories, appended,
                   started, spell, dd, ck, auth>>

\* a plausible slip: the session's memory is fetched before the search, so
\* that its entry stays behind when the search raises
SearchRaises_after_history(t) ==
    /\ tasks[t].pc = "embed"
    /\ memories' = [memories EXCEPT
                      ![tasks[t].rag] = _get_memory(@, tasks[t].session_id)]
    /\ Settle(t, [query_raise(tasks[t], "search") EXCEPT
                      !.search_calls = 1, !.trace = Append(@, "search")], db)
    /\ UNCHANGED <<cache, now, ticks, ret, lastSet, appended,
                   started, spell, dd, ck, auth>>

\* the embedding call returns and the vector search raises
SearchRaises(t) ==
    /\ tasks[t].pc = "embed"
    /\ Settle(t, [query_raise(tasks[t], "search") EXCEPT
                      !.search_calls = 1, !.trace = Append(@, "search")], db)
    /\ UNCHANGED <<cache, now, ticks, ret, lastSet, memories, appended,
                   started, spell, dd, ck, auth>>

\* a plausible slip: memory and cache are updated before the model call is
\* awaited, so that they stay behind when it raises
ModelRaises_partial(t) ==
    /\ tasks[t].pc = "llm"
    /\ memories' = [memories EXCEPT
                      ![tasks[t].rag] =
                          _add_to_memory(@, tasks[t].session_id,
                                         tasks[t].question, "")]
    /\ cache' = set(cache, tasks[t].cache_key,
                    [answer |-> "", sources |-> tasks[t].sources], now)
    /\ Settle(t, query_raise(tasks[t], "llm"), db)
    /\ UNCHANGED <<now, ticks, ret, lastSet, appended, started, spell, dd, ck, auth>>

\* the model call raises
ModelRaises(t) ==
    /\ tasks[t].pc = "llm"
    /\ Settle(t, query_raise(tasks[t], "llm"), db)
    /\ UNCHANGED <<cache, now, ticks, ret, lastSet, memories, appended,
                   started, spell, dd, ck, auth>>

\* the exchanges a history text was formatted from
ExchangesOf(history) ==
    IF history = << <<"No previous conversation.">> >> THEN <<>>
    ELSE [i \in 1..(Len(history) \div 2) |->
             Exchange(history[2 * i - 1][2], history[2 * i][2])]

\* a plausible slip: the exchange is appended to the memory as it was read
\* at step 5, before the model call was awaited, and that list is stored
ModelReturns_stale(t, answer) ==
    LET rec == tasks[t]
        stale == Append(ExchangesOf(rec.history), Exchange(rec.question, answer))
    IN
    /\ rec.pc = "llm"
    /\ memories' = [memories EXCEPT
                      ![rec.rag] = DictPut(@, rec.session_id,
                                           LastK(stale, _memory_window))]
    /\ appended' = [appended EXCEPT
                      ![rec.rag][rec.session_id] =
                          Append(@, Exchange(rec.question, answer))]
    /\ cache' = set(cache, rec.cache_key,
                    [answer |-> answer, sources |-> rec.sources], now)
    /\ lastSet' = NoteSet(lastSet, rec.cache_key,
                          [answer |-> answer, sources |-> rec.sources], now)
    /\ Settle(t, query_complete(rec, answer), db)
    /\ UNCHANGED <<now, ticks, ret, started, spell, dd, ck, auth>>

\* the model call returns answer: memory update, cache write, return
ModelReturns(t, answer) ==
    LET rec == tasks[t] IN
    /\ rec.pc = "llm"
    /\ memories' = [memories EXCEPT
                      ![rec.rag] =
                          _add_to_memory(@, rec.session_id, rec.question, answer)]
    /\ appended' = [appended EXCEPT
                      ![rec.rag][rec.session_id] =
                          Append(@, Exchange(rec.question, answer))]
    /\ cache' = set(cache, rec.cache_key,
                    [answer |-> answer, sources |-> rec.sources], now)
    /\ lastSet' = NoteSet(lastSet, rec.cache_key,
                          [answer |-> answer, sources |-> rec.sources], now)
    /\ Settle(t, query_complete(rec, answer), db)
    /\ UNCHANGED <<now, ticks, ret, started, spell, dd, ck, auth>>

(***************************************************************************)
(* The steps of POST /query.  The handler suspends at db.execute, at       *)
(* db.flush and wherever query suspends.                                   *)
(***************************************************************************)
\* the questions a request may carry: one is empty, one whitespace only
ApiQuestions == {<<"a">>, <<"s">>, <<" ">>, <<>>}

\* a plausible slip: the question is tested without strip()
admit_no_strip(question) ==
    IF Len(question) < 1 THEN "http422"
    ELSE IF question = <<>> THEN "http400"
    ELSE "select"

\* where a request with this question goes: QueryRequest refuses a question
\* shorter than min_length = 1 (the framework answers 422 and the handler
\* does not run); the handler refuses a question that strips to nothing
admit(question) ==
    IF Len(question) < 1 THEN "http422"
    ELSE IF strip(question) = <<>> THEN "http400"
    ELSE "select"

\* rag_service = RAGService(): every request builds an instance of its own,
\* here called by the number of the request's task
rag_of_request(t) == t

\* a request arrives: request validation, the blank test, then the SELECT is
\* issued
ApiRequest(t, user, question, session_id) ==
    /\ tasks[t].pc \in Resting
    /\ started < MaxRequests
    /\ started' = started + 1
    /\ LET rec == [IdleTask EXCEPT !.via = "api", !.rag = rag_of_request(t),
                                   !.user = user, !.question = question,
                                   !.session_id = session_id,
                                   !.prior = completed[session_id]]
       IN  tasks' = [tasks EXCEPT ![t] = [rec EXCEPT !.pc = admit(question)]]
    /\ UNCHANGED <<cache, now, ticks, ret, lastSet, memories, appended,
                   spell, dd, db, completed, ck, auth>>

\* lines 58 to 72 for a request whose conversation is known, on the store d:
\* the user message, RAGService(), and query up to its first suspension
ApiProceed(t, rec, d) ==
    LET d1 == AddMessage(d, rec.conversation, "user", rec.question, None) IN
    /\ memories' = [memories EXCEPT ![rec.rag] = EmptyDict]
    /\ appended' = [appended EXCEPT ![rec.rag] = [s \in Sessions |-> <<>>]]
    /\ \/ \* RAGService() raises (the vector index is unreachable)
          /\ Settle(t, query_raise(rec, "init"), d1)
          /\ cache' = cache
       \/ \* RAGService() is built and query runs to the cache lookup
          LET r == get(cache, generate_key(rec.question), now) IN
          /\ cache' = r.cache
          /\ Settle(t, query_enter(rec, r.value), d1)

\* the SELECT answers: no conversation (one is added and its flush awaited),
\* one (the handler goes on), or several (scalar_one_or_none raises)
ApiSelected(t) ==
    LET rec == tasks[t]
        found == Matching(db, rec.user, rec.session_id)
    IN
    /\ rec.pc = "select"
    /\ IF found = {}
       THEN /\ tasks' = [tasks EXCEPT ![t] = [rec EXCEPT !.pc = "flush"]]
            /\ UNCHANGED <<cache, memories, appended, db, completed>>
       ELSE IF Cardinality(found) = 1
       THEN ApiProceed(t, [rec EXCEPT !.conversation =
                                         CHOOSE i \in found : TRUE], db)
       ELSE /\ tasks' = [tasks EXCEPT ![t] =
                            [rec EXCEPT !.pc = "http500", !.failed_at = "select"]]
            /\ UNCHANGED <<cache, memories, appended, db, completed>>
    /\ UNCHANGED <<now, ticks, ret, lastSet, started, spell, dd, ck, auth>>

\* the flush of the new Conversation completes
ApiFlushed(t) ==
    LET rec == tasks[t]
        d1 == AddConversation(db, rec.user, rec.session_id)
    IN
    /\ rec.pc = "flush"
    /\ ApiProceed(t, [rec EXCEPT !.conversation = Len(d1.conversations)], d1)
    /\ UNCHANGED <<now, ticks, ret, lastSet, started, spell, dd, ck, auth>>

(***************************************************************************)
(* GET /history (routers/chat.py).                                         *)
(***************************************************************************)
\* the orders in which the rows of the set ids can be loaded (the
\* relationship declares no order)
RECURSIVE LoadOrders(_)
LoadOrders(ids) ==
    IF ids = {} THEN {<<>>}
    ELSE UNION {{<<x>> \o rest : rest \in LoadOrders(ids \ {x})} : x \in ids}

\* conversation.messages: the ids of the rows of messages that belong to
\* conversation c
MessagesOf(d, c) ==
    {i \in 1..Len(d.messages) : d.messages[i].conversation_id = c}

\* MessageResponse(id, role, content, sources, created_at) of row i
MessageResponse(d, i) ==
    [id |-> i, role |-> d.messages[i].role, content |-> d.messages[i].content,
     sources |-> IF d.messages[i].sources # None
                 THEN Some(json_loads(d.messages[i].sources)) ELSE None,
     created_at |-> d.messages[i].created_at]

\* sorted(rows, key=lambda m: m.created_at): a stable sort, each row put
\* behind the rows already placed whose created_at is not later
RECURSIVE sorted_by_created_at(_, _)
sorted_by_created_at(d, rows) ==
    IF rows = <<>> THEN <<>>
    ELSE LET s == sorted_by_created_at(d, SubSeq(rows, 1, Len(rows) - 1))
             x == rows[Len(rows)]
             k == Cardinality({i \in 1..Len(s) :
                     d.messages[s[i]].created_at <= d.messages[x].created_at})
         IN  SubSeq(s, 1, k) \o <<x>> \o SubSeq(s, k + 1, Len(s))

\* ChatHistoryResponse(session_id, messages) for the rows in this order
ChatHistoryResponse(d, session_id, rows) ==
    [session_id |-> session_id,
     messages |-> [i \in 1..Len(rows) |-> MessageResponse(d, rows[i])]]

\* a plausible slip: the conversation is looked up by session_id alone
get_chat_history_any_user(d, user, session_id) ==
    LET found == {i \in 1..Len(d.conversations) :
                     d.conversations[i].session_id = session_id}
    IN
    IF found = {} THEN {ChatHistoryResponse(d, session_id, <<>>)}
    ELSE IF Cardinality(found) > 1 THEN {None}
    ELSE LET c == CHOOSE i \in found : TRUE IN
         {ChatHistoryResponse(d, session_id, sorted_by_created_at(d, order)) :
             order \in LoadOrders(MessagesOf(d, c))}

\* get_chat_history on the store d: the responses it can give.  No
\* conversation gives an empty list, several make scalar_one_or_none raise
\* (None here), one gives its messages, loaded in some order and sorted by
\* created_at
get_chat_history(d, user, session_id) ==
    LET found == Matching(d, user, session_id) IN
    IF found = {} THEN {ChatHistoryResponse(d, session_id, <<>>)}
    ELSE IF Cardinality(found) > 1 THEN {None}
    ELSE LET c == CHOOSE i \in found : TRUE IN
         {ChatHistoryResponse(d, session_id, sorted_by_created_at(d, order)) :
             order \in LoadOrders(MessagesOf(d, c))}

\* the client's GET /history request of user for session_id is answered: a
\* list of messages, or HTTP 500 when scalar_one_or_none raised
HistoryRequest(user, session_id) ==
    /\ ret.op # "get_chat_history"
    /\ \E r \in get_chat_history(db, user, session_id) :
          ret' = Ret("get_chat_history", 0,
                     [user |-> user, session_id |-> session_id,
                      response |-> r], r = None)
    /\ UNCHANGED <<cache, now, ticks, lastSet, memories, appended, tasks, started,
                   spell, dd, db, completed, ck, auth>>

\* the client has read the answer and may ask again
HistoryRead ==
    /\ ret.op = "get_chat_history"
    /\ ret' = Ret("none", 0, None, FALSE)
    /\ UNCHANGED <<cache, now, ticks, lastSet, memories, appended, tasks, started,
                   spell, dd, db, completed, ck, auth>>

(***************************************************************************)
(* Spellings of one query (for generate_key).                              *)
(***************************************************************************)
Letters == {"a", "A", "s", "S", "long-s"}
AsciiLetters == {"a", "A", "s", "S"}

\* the letters that differ from c in case only: one is the other's upper or
\* lower case
CaseVariants(c) ==
    {d \in Letters \ {c} :
        \/ d = UpperChar(c) \/ d = LowerChar(c)
        \/ c = UpperChar(d) \/ c = LowerChar(d)}

\* a query as first spelled and as respelled, with the key of each; ascii
\* tells that only ASCII letters changed case so far
Spelled(orig, cur, ascii) ==
    [orig |-> orig, cur |-> cur, ascii |-> ascii,
     orig_key |-> generate_key(orig), key |-> generate_key(cur)]

\* the case of one letter changes
SwapCase(i, d) ==
    /\ i \in 1..Len(spell.cur)
    /\ d \in CaseVariants(spell.cur[i])
    /\ spell' = Spelled(spell.orig, [spell.cur EXCEPT ![i] = d],
                        spell.ascii /\ {spell.cur[i], d} \subseteq AsciiLetters)
    /\ UNCHANGED <<cache, now, ticks, ret, lastSet, memories, appended, tasks,
                   started, dd, db, completed, ck, auth>>

\* whitespace is added in front or behind
Pad(w, front) ==
    /\ Len(spell.cur) <= MaxQueryLen
    /\ spell' = Spelled(spell.orig,
                        IF front THEN <<w>> \o spell.cur ELSE Append(spell.cur, w),
                        spell.ascii)
    /\ UNCHANGED <<cache, now, ticks, ret, lastSet, memories, appended, tasks,
                   started, dd, db, completed, ck, auth>>

\* whitespace is removed from the front or from behind
Trim(front) ==
    /\ spell.cur # <<>>
    /\ IF front THEN Head(spell.cur) \in Whitespace
       ELSE spell.cur[Len(spell.cur)] \in Whitespace
    /\ spell' = Spelled(spell.orig,
                        IF front THEN Tail(spell.cur)
                        ELSE SubSeq(spell.cur, 1, Len(spell.cur) - 1),
                        spell.ascii)
    /\ UNCHANGED <<cache, now, ticks, ret, lastSet, memories, appended, tasks,
                   started, dd, db, completed, ck, auth>>

(***************************************************************************)
(* The loop of step 4, one iteration at a time.                            *)
(***************************************************************************)
\* for result in search_results: one iteration
CollectStep ==
    /\ dd.pc = "loop"
    /\ dd.i <= Len(dd.results)
    /\ dd' = [dd EXCEPT !.acc = collect(dd.acc, dd.results[dd.i]), !.i = dd.i + 1]
    /\ UNCHANGED <<cache, now, ticks, ret, lastSet, memories, appended, tasks,
                   started, spell, db, completed, ck, auth>>

\* the loop ends and the context is joined
CollectDone ==
    /\ dd.pc = "loop"
    /\ dd.i > Len(dd.results)
    /\ dd' = [dd EXCEPT !.pc = "done", !.context = context_of(dd.acc.context_parts)]
    /\ UNCHANGED <<cache, now, ticks, ret, lastSet, memories, appended, tasks,
                   started, spell, db, completed, ck, auth>>

(***************************************************************************)
(* chunk_text (scripts/index_documents.py).  A text is a sequence of       *)
(* characters; the encoder turns it into tokens, each the string of one or *)
(* two characters, and decoding joins the strings of the tokens.           *)
(***************************************************************************)
TextChars == {"a", "b"}

\* encoder.encode: "ab" is one token, every other character a token of its own
RECURSIVE encode(_)
encode(text) ==
    IF text = <<>> THEN <<>>
    ELSE IF Len(text) >= 2 /\ text[1] = "a" /\ text[2] = "b"
         THEN << <<"a", "b">> >> \o encode(SubSeq(text, 3, Len(text)))
         ELSE << <<text[1]>> >> \o encode(Tail(text))

\* encoder.decode: the strings of the tokens, joined
RECURSIVE decode(_)
decode(tokens) ==
    IF tokens = <<>> THEN <<>> ELSE Head(tokens) \o decode(Tail(tokens))

\* an index of a Python slice of a sequence of length n: negative indices
\* count from the end, and the index is clamped to 0..n
SliceIndex(i, n) ==
    LET j == IF i < 0 THEN i + n ELSE i
    IN  IF j < 0 THEN 0 ELSE IF j > n THEN n ELSE j

\* seq[lo:hi] of Python (0-based, hi exclusive)
Slice(seq, lo, hi) ==
    SubSeq(seq, SliceIndex(lo, Len(seq)) + 1, SliceIndex(hi, Len(seq)))

\* a plausible slip: the next chunk starts where this one ended
next_start_no_overlap(end, overlap) == end

\* a plausible slip: the overlap is taken off twice
next_start_overlap_twice(end, overlap) == end - 2 * overlap

\* start = end - overlap
next_start(end, overlap) == end - overlap

Ck0 ==
    [pc |-> "idle", text |-> <<>>, chunk_size |-> 1, overlap |-> 0,
     tokens |-> <<>>, start |-> 0, chunks |-> <<>>]

\* chunk_text(text, chunk_size, overlap) is called: lines 39 to 43
ChunkCall(text, chunk_size, overlap) ==
    [pc |-> "loop", text |-> text, chunk_size |-> chunk_size,
     overlap |-> overlap, tokens |-> encode(text), start |-> 0,
     chunks |-> <<>>]

\* one iteration of the while loop; a chunk is kept with the token range it
\* was cut from
ChunkStep ==
    /\ ck.pc = "loop"
    /\ ck.start < Len(ck.tokens)
    /\ Len(ck.chunks) < MaxChunks
    /\ LET end == ck.start + ck.chunk_size
           chunk_tokens == Slice(ck.tokens, ck.start, end)
           lo == SliceIndex(ck.start, Len(ck.tokens))
           chunk == [lo |-> lo, hi |-> lo + Len(chunk_tokens),
                     text |-> decode(chunk_tokens)]
           start == next_start(end, ck.overlap)
       IN  ck' = [ck EXCEPT !.chunks = Append(@, chunk), !.start = start,
                            !.pc = IF start >= Len(ck.tokens)
                                   THEN "done" ELSE "loop"]
    /\ UNCHANGED <<cache, now, ticks, ret, lastSet, memories, appended, tasks,
                   started, spell, dd, db, completed, auth>>

\* the while condition fails: return chunks
ChunkReturn ==
    /\ ck.pc = "loop"
    /\ ~(ck.start < Len(ck.tokens))
    /\ ck' = [ck EXCEPT !.pc = "done"]
    /\ UNCHANGED <<cache, now, ticks, ret, lastSet, memories, appended, tasks,
                   started, spell, dd, db, completed, auth>>

(***************************************************************************)
(* POST /login (routers/auth.py) over the users table.  A row keeps, next  *)
(* to its columns, the password it was created with (history).             *)
(***************************************************************************)
Emails == {"ann", "bob"}
Passwords == {"pw1", "pw2"}
Salts == {1, 2}

\* bcrypt.hashpw(password, salt): the salt and the digest of salt and password
hashpw(password, salt) == [salt |-> salt, digest |-> <<salt, password>>]

\* verify_password: bcrypt.checkpw hashes the plain password with the salt
\* of the stored hash and compares
verify_password(plain_password, hashed_password) ==
    hashpw(plain_password, hashed_password.salt) = hashed_password

\* create_access_token(data={"sub": email}) at time t
create_access_token(email, t) ==
    [sub |-> email, exp |-> t + 60 * 60]

UserRow(password, salt, is_active) ==
    [hashed_password |-> hashpw(password, salt), is_active |-> is_active,
     password |-> password]

HttpError(status, detail) ==
    [status |-> status, detail |-> detail, token |-> None]

\* a plausible slip: the account state is tested before the password
login_active_first(users, email, password, t) ==
    IF email \notin DOMAIN users
    THEN HttpError(401, "Invalid credentials")
    ELSE IF ~users[email].is_active
    THEN HttpError(403, "User account is disabled")
    ELSE IF ~verify_password(password, users[email].hashed_password)
    THEN HttpError(401, "Invalid credentials")
    ELSE [status |-> 200, detail |-> "",
          token |-> [access_token |-> create_access_token(email, t),
                     token_type |-> "bearer"]]

\* login: the response to (email, password) over the table users at time t
login(users, email, password, t) ==
    IF email \notin DOMAIN users
         \/ ~verify_password(password, users[email].hashed_password)
    THEN HttpError(401, "Invalid credentials")
    ELSE IF ~users[email].is_active
    THEN HttpError(403, "User account is disabled")
    ELSE [status |-> 200, detail |-> "",
          token |-> [access_token |-> create_access_token(email, t),
                     token_type |-> "bearer"]]

Auth0 == [users |-> EmptyDict, last |-> None]

\* scripts/create_user.py: an active user is added unless the email is taken
CreateUser(email, password, salt) ==
    /\ auth' = [auth EXCEPT !.users =
                   IF email \in DOMAIN @ THEN @
                   ELSE DictPut(@, email, UserRow(password, salt, TRUE))]
    /\ UNCHANGED <<cache, now, ticks, ret, lastSet, memories, appended, tasks,
                   started, spell, dd, db, completed, ck>>

\* a row with is_active = False is inserted (as tests/test_auth.py does); the
\* unique index on email refuses a second row for an email
AddInactiveUser(email, password, salt) ==
    /\ email \notin DOMAIN auth.users
    /\ auth' = [auth EXCEPT !.users =
                   DictPut(@, email, UserRow(password, salt, FALSE))]
    /\ UNCHANGED <<cache, now, ticks, ret, lastSet, memories, appended, tasks,
                   started, spell, dd, db, completed, ck>>

\* POST /login with username = email and password
Login(email, password) ==
    /\ auth' = [auth EXCEPT !.last =
                   [email |-> email, password |-> password,
                    response |-> login(auth.users, email, password, now)]]
    /\ UNCHANGED <<cache, now, ticks, ret, lastSet, memories, appended, tasks,
                   started, spell, dd, db, completed, ck>>

(***************************************************************************)
(* Initial states and specifications.                                      *)
(***************************************************************************)
SeqsUpTo(S, n) == UNION {[1..k -> S] : k \in 0..n}

Ret0 == [op |-> "none", key |-> 0, value |-> None, raised |-> FALSE, at |-> 0]

Dd0 == [pc |-> "idle", results |-> <<>>, i |-> 1, acc |-> EmptyAcc, context |-> <<>>]

\* the process after start-up: an empty class-level cache, one RAGService
\* (instance 0) with no session memory, an empty store
Init ==
    /\ cache = EmptyDict
    /\ now = 0
    /\ ticks = 0
    /\ ret = Ret0
    /\ lastSet = [k \in CacheKeys |-> None]
    /\ memories = [i \in Instances |-> EmptyDict]
    /\ appended = [i \in Instances |-> [s \in Sessions |-> <<>>]]
    /\ tasks = [t \in Tasks |-> IdleTask]
    /\ started = 0
    /\ spell = Spelled(<<>>, <<>>, TRUE)
    /\ dd = Dd0
    /\ db = [conversations |-> <<>>, messages |-> <<>>]
    /\ completed = [s \in Sessions |-> None]
    /\ ck = Ck0
    /\ auth = Auth0

\* RAGService.query called concurrently on one RAGService
Next ==
    \/ \E t \in Tasks, q \in Questions, s \in Sessions : CallQuery(t, q, s)
    \/ \E t \in Tasks : EmbedReturns(t)
    \/ \E t \in Tasks : EmbedRaises(t)
    \/ \E t \in Tasks : SearchRaises(t)
    \/ \E t \in Tasks, a \in Answers : ModelReturns(t, a)
    \/ \E t \in Tasks : ModelRaises(t)
    \/ \E c \in QueryClock : c > now /\ Tick(c - now)

Spec == Init /\ [][Next]_vars

\* CacheService called directly
NextCache ==
    \/ \E k \in CacheKeys : CacheGetCall(k)
    \/ \E k \in CacheKeys, d \in CacheData : CacheSetCall(k, d)
    \/ \E k \in CacheKeys : CacheInvalidateCall(k)
    \/ CacheInvalidateAllCall
    \/ \E d \in TickSteps : Tick(d)

SpecCache == Init /\ [][NextCache]_vars

\* the session memory of one RAGService called directly
MemQuestions == {<<"a">>, <<"s">>}
MemAnswers == {"a1"}

NextMem ==
    \/ \E s \in Sessions, q \in MemQuestions, a \in MemAnswers :
          AddToMemoryCall(s, q, a)
    \/ \E s \in Sessions : GetMemoryCall(s)
    \/ \E s \in Sessions : ClearSessionCall(s)

SpecMem == Init /\ [][NextMem]_vars

\* generate_key on the spellings of a query
InitKey ==
    /\ Init!1 /\ Init!2 /\ Init!3 /\ Init!4 /\ Init!5 /\ Init!6 /\ Init!7
    /\ Init!8 /\ Init!9 /\ Init!11 /\ Init!12 /\ Init!13 /\ Init!14 /\ Init!15
    /\ \E q \in SeqsUpTo(Alphabet, MaxQueryLen) : spell = Spelled(q, q, TRUE)

NextKey ==
    \/ \E i \in 1..(MaxQueryLen + 1), d \in Letters : SwapCase(i, d)
    \/ \E w \in Whitespace, front \in BOOLEAN : Pad(w, front)
    \/ \E front \in BOOLEAN : Trim(front)

SpecKey == InitKey /\ [][NextKey]_vars

\* the source collection loop on every list of at most TOP_K results
InitCollect ==
    /\ Init!1 /\ Init!2 /\ Init!3 /\ Init!4 /\ Init!5 /\ Init!6 /\ Init!7
    /\ Init!8 /\ Init!9 /\ Init!10 /\ Init!12 /\ Init!13 /\ Init!14 /\ Init!15
    /\ \E results \in SeqsUpTo(Points, TOP_K) :
          dd = [Dd0 EXCEPT !.pc = "loop", !.results = results]

NextCollect == CollectStep \/ CollectDone

SpecCollect == InitCollect /\ [][NextCollect]_vars

\* POST /query requests handled concurrently, within one TTL window
NextApi ==
    \/ \E t \in Tasks, u \in Users, q \in ApiQuestions, s \in Sessions :
          ApiRequest(t, u, q, s)
    \/ \E t \in Tasks : ApiSelected(t)
    \/ \E t \in Tasks : ApiFlushed(t)
    \/ \E t \in Tasks : EmbedReturns(t)
    \/ \E t \in Tasks : EmbedRaises(t)
    \/ \E t \in Tasks : SearchRaises(t)
    \/ \E t \in Tasks, a \in Answers : ModelReturns(t, a)
    \/ \E t \in Tasks : ModelRaises(t)

SpecApi == Init /\ [][NextApi]_vars

\* /query and /history requests of two users while the database's clock
\* advances
HistQuestions == {<<"a">>}
HistAnswers == {"a1"}
HistSessions == {"s1"}
\* the later readings of the database's clock (it starts at 0)
HistClock == {1}

NextHist ==
    \/ \E t \in Tasks, u \in Users, q \in HistQuestions, s \in HistSessions :
          ApiRequest(t, u, q, s)
    \/ \E t \in Tasks : ApiSelected(t)
    \/ \E t \in Tasks : ApiFlushed(t)
    \/ \E t \in Tasks : EmbedReturns(t)
    \/ \E t \in Tasks, a \in HistAnswers : ModelReturns(t, a)
    \/ \E t \in Tasks : ModelRaises(t)
    \/ \E u \in Users, s \in HistSessions : HistoryRequest(u, s)
    \/ HistoryRead
    \/ \E c \in HistClock : c > now /\ Tick(c - now)

SpecHist == Init /\ [][NextHist]_vars

\* values a caller of set may store that are not an (answer, sources) pair:
\* None, the empty dict, and dicts holding one of the two fields only
CorruptData ==
    {None, [x \in {} |-> 0], [answer |-> "a1"], [sources |-> <<"A">>]}

\* RAGService.query over a cache in which other callers of CacheService.set
\* have stored such values
NextCorrupt ==
    \/ \E t \in Tasks, q \in Questions, s \in Sessions : CallQuery(t, q, s)
    \/ \E t \in Tasks : EmbedReturns(t)
    \/ \E t \in Tasks : EmbedRaises(t)
    \/ \E t \in Tasks : SearchRaises(t)
    \/ \E t \in Tasks, a \in Answers : ModelReturns(t, a)
    \/ \E t \in Tasks : ModelRaises(t)
    \/ \E k \in CacheKeys, data \in CorruptData : CacheSetCall(k, data)

SpecCorrupt == Init /\ [][NextCorrupt]_vars

\* chunk_text on every text of at most MaxTextLen characters, with every
\* chunk_size from 1 and overlap from 0 up to MaxChunkSize
InitChunk ==
    /\ Init!1 /\ Init!2 /\ Init!3 /\ Init!4 /\ Init!5 /\ Init!6 /\ Init!7
    /\ Init!8 /\ Init!9 /\ Init!10 /\ Init!11 /\ Init!12 /\ Init!13 /\ Init!15
    /\ \E text \in SeqsUpTo(TextChars, MaxTextLen),
          chunk_size \in 1..MaxChunkSize, overlap \in 0..MaxChunkSize :
          ck = ChunkCall(text, chunk_size, overlap)

NextChunk == ChunkStep \/ ChunkReturn

SpecChunk == InitChunk /\ [][NextChunk]_vars

\* chunk_text run to its end: the loop is sequential code of one call, so a
\* step that can be taken is taken
SpecChunkRun == SpecChunk /\ WF_vars(NextChunk)

\* login attempts over a users table that grows
NextAuth ==
    \/ \E e \in Emails, p \in Passwords, s \in Salts : CreateUser(e, p, s)
    \/ \E e \in Emails, p \in Passwords, s \in Salts : AddInactiveUser(e, p, s)
    \/ \E e \in Emails, p \in Passwords : Login(e, p)

SpecAuth == Init /\ [][NextAuth]_vars

\* the exchanges a session may hold from earlier queries
PriorLog ==
    << Exchange(<<"a">>, "a1"), Exchange(<<"s">>, "a2"),
       Exchange(<<"a">>, "a2"), Exchange(<<"s">>, "a1"),
       Exchange(<<"a">>, "a1") >>

\* concurrent queries on one RAGService whose session s1 already holds up to
\* _memory_window exchanges of earlier queries
InitConc ==
    /\ Init!1 /\ Init!2 /\ Init!3 /\ Init!4 /\ Init!5 /\ Init!8 /\ Init!9
    /\ Init!10 /\ Init!11 /\ Init!12 /\ Init!13 /\ Init!14 /\ Init!15
    /\ \E k \in 0..Len(PriorLog) :
          /\ memories = [i \in Instances |->
                           IF i = 0 /\ k > 0
                           THEN DictPut(EmptyDict, "s1", SubSeq(PriorLog, 1, k))
                           ELSE EmptyDict]
          /\ appended = [i \in Instances |-> [s \in Sessions |->
                           IF i = 0 /\ s = "s1"
                           THEN SubSeq(PriorLog, 1, k) ELSE <<>>]]

NextConc ==
    \/ \E t \in Tasks, q \in Questions, s \in Sessions : CallQuery(t, q, s)
    \/ \E t \in Tasks : EmbedReturns(t)
    \/ \E t \in Tasks : EmbedRaises(t)
    \/ \E t \in Tasks : SearchRaises(t)
    \/ \E t \in Tasks, a \in Answers : ModelReturns(t, a)
    \/ \E t \in Tasks : ModelRaises(t)

SpecConc == InitConc /\ [][NextConc]_vars

(***************************************************************************)
(* Properties.                                                             *)
(***************************************************************************)
\* the exchanges of a session in a store (none when the session is unknown)
Exch(mems, session_id) ==
    IF session_id \in DOMAIN mems THEN mems[session_id] ELSE <<>>

Min(a, b) == IF a <= b THEN a ELSE b

NoDuplicates(seq) == \A i, j \in 1..Len(seq) : seq[i] = seq[j] => i = j

Range(seq) == {seq[i] : i \in 1..Len(seq)}

FirstIndex(seq, x) == CHOOSE i \in 1..Len(seq) : seq[i] = x /\ \A j \in 1..(i - 1) : seq[j] # x

\* the source_url of each result, in order
UrlsOf(results) == [i \in 1..Len(results) |-> SourceUrlOf(results[i])]

\* sources holds each non-blank URL of results once, by first occurrence
IsDedupOf(sources, results) ==
    /\ NoDuplicates(sources)
    /\ Range(sources) = Range(UrlsOf(results)) \ {""}
    /\ \A i, j \in 1..Len(sources) :
          i < j => FirstIndex(UrlsOf(results), sources[i])
                     < FirstIndex(UrlsOf(results), sources[j])

\* old with exchange e appended and, beyond the window, its oldest dropped
OneAppended(old, e) ==
    IF Len(old) < _memory_window THEN Append(old, e) ELSE Append(Tail(old), e)

\* C6: a get returns the value of the most recent set on its key if and only
\* if that set has not been invalidated since and is at most ttl seconds old;
\* otherwise it returns None.
C6_TTLVisibility ==
    ret.op = "get" =>
        LET ls == lastSet[ret.key] IN
        /\ (ret.value # None) <=>
              (ls # None /\ ls.live /\ ret.at - ls.at <= _ttl_seconds)
        /\ ret.value # None => ret.value = ls.data

\* C6 witness: an entry read back ttl - 1 seconds after it was overwritten
C6_Witness ==
    /\ ret.op = "get"
    /\ ret.value # None
    /\ ret.at - lastSet[ret.key].at = _ttl_seconds - 1
    /\ ret.at > _ttl_seconds

\* C7: a get removes its own key when that entry is expired and changes
\* nothing else: entries under other keys, expired or not, stay as they are,
\* and a get of an absent or live key leaves the cache unchanged.
C7_LazyEvictionFrame ==
    [][ret'.op = "get" =>
         LET k == ret'.key
             expired == k \in DOMAIN cache
                          /\ now - cache[k].timestamp > _ttl_seconds
         IN  /\ DOMAIN cache' = IF expired THEN DOMAIN cache \ {k} ELSE DOMAIN cache
             /\ \A j \in DOMAIN cache' : cache'[j] = cache[j]]_vars

\* C7 witness: a get has just evicted its key while an expired entry under
\* another key is still stored
C7_Witness ==
    /\ ret.op = "get"
    /\ ret.value = None
    /\ lastSet[ret.key] # None /\ lastSet[ret.key].live
    /\ ret.key \notin DOMAIN cache
    /\ \E j \in DOMAIN cache : now - cache[j].timestamp > _ttl_seconds

\* C8: invalidate_all leaves the cache empty; invalidate(key) removes that key
\* only and never raises; and a get on a key invalidated since its last set
\* returns None.
C8_Invalidation ==
    [][/\ ret'.op = "invalidate_all" => DOMAIN cache' = {}
       /\ ret'.op = "invalidate" =>
             /\ ~ret'.raised
             /\ DOMAIN cache' = DOMAIN cache \ {ret'.key}
             /\ \A j \in DOMAIN cache' : cache'[j] = cache[j]
       /\ (ret'.op = "get" /\ lastSet'[ret'.key] # None
             /\ ~lastSet'[ret'.key].live) => ret'.value = None]_vars

\* C8 witness: a get returns None for a key that was set less than ttl seconds
\* ago and invalidated since, while another key is still cached
C8_Witness ==
    /\ ret.op = "get"
    /\ ret.value = None
    /\ lastSet[ret.key] # None
    /\ ~lastSet[ret.key].live
    /\ ret.at - lastSet[ret.key].at <= _ttl_seconds
    /\ DOMAIN cache # {}

\* C9 as claimed: every respelling of a query that changes only letter case
\* and leading or trailing whitespace has the key of the original spelling.
C9_KeyOfSpellings == spell.key = spell.orig_key

\* the part of C9 that holds: every respelling of a query that changes only
\* the case of ASCII letters and leading or trailing whitespace has the key
\* of the original spelling.
C9_KeyOfAsciiSpellings == spell.ascii => spell.key = spell.orig_key

\* "a s" respelled as " A S"
C9_AsciiRespelled ==
    /\ spell.ascii
    /\ spell.orig = <<"a", " ", "s">>
    /\ spell.cur = <<" ", "A", " ", "S">>

\* C10: when the loop over the search results ends, sources holds every
\* non-empty source_url of the results exactly once, ordered by first
\* occurrence, and no empty URL.
C10_SourceDedup ==
    dd.pc = "done" =>
        /\ IsDedupOf(dd.acc.sources, dd.results)
        /\ \A i \in 1..Len(dd.acc.sources) : dd.acc.sources[i] # ""

\* C10 witness: the results [A, B, A, "", C] gave the sources [A, B, C]
C10_Witness ==
    /\ dd.pc = "done"
    /\ UrlsOf(dd.results) = <<"A", "B", "A", "", "C">>
    /\ dd.acc.sources = <<"A", "B", "C">>

\* the step in which task t entered query (its cache lookup): a query is
\* started and no other task changes
Entered(t) ==
    started' = started + 1 /\ \A u \in Tasks \ {t} : tasks'[u] = tasks[u]

\* the step in which query of task t returned after the model answered
Completed(t) ==
    tasks[t].pc = "llm" /\ tasks'[t].pc \in {"returned", "responded"}

\* the step in which query of task t raised
Raised(t) ==
    tasks[t].pc \in {"embed", "llm"} /\ tasks'[t].pc \in {"raised", "http500"}

\* C1: a query whose key has an entry at most ttl seconds old returns that
\* entry's (answer, sources), has made no embedding, search or model call,
\* and leaves every session memory as it was.
C1_CacheHit ==
    [][started' = started + 1 => \E t \in Tasks :
         LET k == generate_key(tasks'[t].question) IN
         /\ Entered(t)
         /\ (k \in DOMAIN cache /\ now - cache[k].timestamp <= _ttl_seconds) =>
              /\ tasks'[t].pc = "returned"
              /\ tasks'[t].result = [answer |-> cache[k].data.answer,
                                     sources |-> cache[k].data.sources]
              /\ tasks'[t].embed_calls = 0
              /\ tasks'[t].search_calls = 0
              /\ tasks'[t].llm_calls = 0
              /\ memories' = memories]_vars

\* C1 witness: the second query returned from an entry exactly ttl seconds
\* old, in a session that has no memory
C1_Witness ==
    \E t \in Tasks :
        /\ tasks[t].pc = "returned" /\ tasks[t].hit
        /\ tasks[t].result.sources = <<"B", "A">>
        /\ now - cache[tasks[t].cache_key].timestamp = _ttl_seconds
        /\ tasks[t].session_id \notin DOMAIN memories[0]

\* C2: when a query that missed the cache returns, the model was called
\* once, its session's memory is the old one with the one exchange
\* (question, answer) appended, no other session's memory changed, and the
\* cache holds (answer, deduplicated sources) under generate_key(question).
C2_MissPath ==
    [][\A t \in Tasks : Completed(t) =>
         LET old == tasks[t]
             new == tasks'[t]
             k == generate_key(old.question)
         IN  /\ new.embed_calls = 1 /\ new.search_calls = 1 /\ new.llm_calls = 1
             /\ Exch(memories'[old.rag], old.session_id)
                  = OneAppended(Exch(memories[old.rag], old.session_id),
                                Exchange(old.question, new.answer))
             /\ \A i \in Instances, s \in Sessions :
                   (i # old.rag \/ s # old.session_id) =>
                       Exch(memories'[i], s) = Exch(memories[i], s)
             /\ IsDedupOf(new.sources, old.results)
             /\ new.result = [answer |-> new.answer, sources |-> new.sources]
             /\ k \in DOMAIN cache'
             /\ cache'[k].data = new.result
             /\ cache'[k].timestamp = now]_vars

\* C2 witness: a second miss on the same session has returned two sources,
\* its session holds two exchanges and the cache holds its result
C2_Witness ==
    \E t \in Tasks :
        /\ tasks[t].pc = "returned" /\ ~tasks[t].hit
        /\ tasks[t].result.sources = <<"B", "A">>
        /\ tasks[t].cache_key \in DOMAIN cache
        /\ cache[tasks[t].cache_key].data = tasks[t].result
        /\ Len(Exch(memories[0], tasks[t].session_id)) = 2
        /\ memories[0][tasks[t].session_id][2]
             = Exchange(tasks[t].question, tasks[t].answer)

\* a cache entry is written, or the exchanges of some session change
Writes ==
    \/ \E k \in DOMAIN cache' : k \notin DOMAIN cache \/ cache'[k] # cache[k]
    \/ \E i \in Instances, s \in Sessions :
          Exch(memories'[i], s) # Exch(memories[i], s)

\* C3: the step in which a query raises writes no cache entry, changes no
\* session's exchanges and touches no other query; and only the return of a
\* query whose model call answered ever writes a cache entry or appends an
\* exchange.
C3_FailureAtomicity ==
    [][/\ \A t \in Tasks : Raised(t) =>
             /\ cache' = cache
             /\ \A i \in Instances, s \in Sessions :
                   Exch(memories'[i], s) = Exch(memories[i], s)
             /\ \A u \in Tasks \ {t} : tasks'[u] = tasks[u]
       /\ Writes => \E t \in Tasks : Completed(t)]_vars

\* C3 witness: a query failed at the model call while the other task's
\* query had returned; the failed query's key is not cached and its session
\* holds no exchange
C3_Witness ==
    \E t \in Tasks, u \in Tasks :
        /\ tasks[t].pc = "raised" /\ tasks[t].failed_at = "llm"
        /\ tasks[u].pc = "returned" /\ ~tasks[u].hit
        /\ tasks[t].cache_key \notin DOMAIN cache
        /\ Exch(memories[0], tasks[t].session_id) = <<>>

\* the lines of exchange e follow each other in the history text
InHistory(history, e) ==
    \E i \in 1..(Len(history) - 1) :
        /\ history[i] = <<"User: ", e.user>>
        /\ history[i + 1] = <<"Assistant: ", e.assistant>>

\* C4: a /query request that missed the cache is given a history holding the
\* last exchange that a /query request had completed on its session before
\* it arrived.
C4_MemorySurvives ==
    \A t \in Tasks :
        (tasks[t].via = "api" /\ tasks[t].pc = "llm" /\ tasks[t].prior # None)
            => InHistory(tasks[t].history, tasks[t].prior)

\* C5: every session's exchange list holds at most _memory_window exchanges
\* and is the last min(n, _memory_window) of the n exchanges appended to it,
\* in their order.
C5_MemoryBound ==
    \A s \in Sessions :
        LET mem == Exch(memories[0], s)
            log == appended[0][s]
        IN  /\ Len(mem) <= _memory_window
            /\ Len(mem) = Min(Len(log), _memory_window)
            /\ \A j \in 1..Len(mem) : mem[j] = log[Len(log) - Len(mem) + j]

\* C5 witness: seven exchanges were appended to a session, five remain, and
\* the second one dropped differs from the first one kept
C5_Witness ==
    \E s \in Sessions :
        /\ Len(appended[0][s]) = 7
        /\ Len(Exch(memories[0], s)) = 5
        /\ appended[0][s][2] # appended[0][s][3]

\* the context built from no search result
NoDocuments == << [from |-> "", text |-> "No relevant documents found."] >>

\* C11: a query whose vector search returned no result goes on to the model
\* call with the placeholder context and no source, calls the model once,
\* and, when the model answers, returns that answer with an empty sources
\* list, appends the exchange to its session and caches the result.
C11_EmptyRetrieval ==
    [][\A t \in Tasks :
         LET old == tasks[t]
             new == tasks'[t]
             k == generate_key(old.question)
         IN  /\ (new.pc = "llm" /\ new.results = <<>>) =>
                   /\ new.context = NoDocuments
                   /\ new.sources = <<>>
                   /\ new.search_calls = 1 /\ new.llm_calls = 1
             /\ (Completed(t) /\ old.results = <<>>) =>
                   /\ new.pc = "returned"
                   /\ new.result = [answer |-> new.answer, sources |-> <<>>]
                   /\ Exch(memories'[old.rag], old.session_id)
                        = OneAppended(Exch(memories[old.rag], old.session_id),
                                      Exchange(old.question, new.answer))
                   /\ k \in DOMAIN cache'
                   /\ cache'[k].data = new.result]_vars

\* C11 witness: a query that missed the cache has returned with no source
\* (of the search outcomes only the empty one gives no source), its result
\* is cached and its exchange is the first of its session
C11_Witness ==
    \E t \in Tasks :
        /\ tasks[t].pc = "returned" /\ ~tasks[t].hit
        /\ tasks[t].llm_calls = 1
        /\ tasks[t].result.sources = <<>>
        /\ tasks[t].cache_key \in DOMAIN cache
        /\ cache[tasks[t].cache_key].data = tasks[t].result
        /\ Exch(memories[0], tasks[t].session_id)
             = << Exchange(tasks[t].question, tasks[t].answer) >>

\* a stored value with no data, or with data lacking "answer" or "sources"
Corrupt(data) == data = None \/ ~({"answer", "sources"} \subseteq DOMAIN data)

\* C12: a query whose key has an unexpired entry with a corrupt value does
\* not raise: it goes on as a cache miss, to the embedding call.
C12_CorruptionIsMiss ==
    [][started' = started + 1 => \E t \in Tasks :
         LET k == generate_key(tasks'[t].question) IN
         /\ Entered(t)
         /\ (k \in DOMAIN cache /\ now - cache[k].timestamp <= _ttl_seconds
               /\ Corrupt(cache[k].data)) =>
              /\ tasks'[t].pc = "embed"
              /\ tasks'[t].embed_calls = 1]_vars

\* the part of C12 that holds: a query whose key has an unexpired entry with
\* no data or an empty dict as data goes on as a cache miss.
C12_EmptyValueIsMiss ==
    [][started' = started + 1 => \E t \in Tasks :
         LET k == generate_key(tasks'[t].question) IN
         /\ Entered(t)
         /\ (k \in DOMAIN cache /\ now - cache[k].timestamp <= _ttl_seconds
               /\ (cache[k].data = None \/ DOMAIN cache[k].data = {})) =>
              /\ tasks'[t].pc = "embed"
              /\ tasks'[t].embed_calls = 1]_vars

\* a query went on to the model call while its key held the empty dict
C12_EmptyValueMissed ==
    \E t \in Tasks :
        /\ tasks[t].pc = "llm"
        /\ tasks[t].cache_key \in DOMAIN cache
        /\ DOMAIN cache[tasks[t].cache_key].data = {}

\* the number of chunk starts 0, step, 2 * step, ... below n
RECURSIVE StartsBelow(_, _)
StartsBelow(n, step) == IF n <= 0 THEN 0 ELSE 1 + StartsBelow(n - step, step)

\* C13: with 0 <= overlap < chunk_size, chunk_text returns, for a text of N
\* tokens, exactly the chunks i with i * (chunk_size - overlap) < N, chunk i
\* holding the tokens from i * (chunk_size - overlap) up to chunk_size later
\* or N; the ranges leave no gap in 0..N; every chunk of full length after
\* the first shares exactly overlap tokens with its predecessor; and no
\* token gives no chunk.
C13_ChunkLayout ==
    (ck.pc = "done" /\ ck.overlap < ck.chunk_size) =>
        LET N == Len(ck.tokens)
            step == ck.chunk_size - ck.overlap
            n == StartsBelow(N, step)
            c == ck.chunks
        IN  /\ Len(c) = n
            /\ \A i \in 0..(n - 1) :
                  /\ c[i + 1].lo = i * step
                  /\ c[i + 1].hi = Min(i * step + ck.chunk_size, N)
                  /\ c[i + 1].text
                       = decode(SubSeq(ck.tokens, c[i + 1].lo + 1, c[i + 1].hi))
            /\ N > 0 => c[1].lo = 0 /\ c[n].hi = N
            /\ \A i \in 2..n : c[i].lo <= c[i - 1].hi
            /\ \A i \in 2..n :
                  c[i].hi - c[i].lo = ck.chunk_size
                     => c[i - 1].hi - c[i].lo = ck.overlap
            /\ N = 0 => c = <<>>

\* C13 witness: five tokens cut with chunk_size 3 and overlap 1 gave the
\* ranges [0,3), [2,5), [4,5) (as 1200 tokens at 500/50 give three chunks)
C13_Witness ==
    /\ ck.pc = "done"
    /\ Len(ck.tokens) = 5 /\ ck.chunk_size = 3 /\ ck.overlap = 1
    /\ [i \in 1..Len(ck.chunks) |-> <<ck.chunks[i].lo, ck.chunks[i].hi>>]
         = << <<0, 3>>, <<2, 5>>, <<4, 5>> >>

\* C14: a non-empty text of fewer tokens than chunk_size, with overlap below
\* chunk_size, gives exactly one chunk, the full text.
C14_ShortTextOneChunk ==
    (ck.pc = "done" /\ ck.overlap < ck.chunk_size
       /\ 0 < Len(ck.tokens) /\ Len(ck.tokens) < ck.chunk_size) =>
        /\ Len(ck.chunks) = 1
        /\ ck.chunks[1].text = ck.text

\* the part of C14 that holds: when the text has at most chunk_size - overlap
\* tokens
C14_VeryShortTextOneChunk ==
    (ck.pc = "done" /\ ck.overlap < ck.chunk_size
       /\ 0 < Len(ck.tokens) /\ Len(ck.tokens) <= ck.chunk_size - ck.overlap) =>
        /\ Len(ck.chunks) = 1
        /\ ck.chunks[1].text = ck.text

\* a text of two tokens (three characters) came back as one chunk
C14_VeryShortChunked ==
    /\ ck.pc = "done" /\ ck.chunk_size = 3 /\ ck.overlap = 1
    /\ Len(ck.tokens) = 2 /\ Len(ck.text) = 3
    /\ Len(ck.chunks) = 1

\* C15: chunk_text called with overlap >= chunk_size produces no chunk and
\* does not return a list of chunks (it fails with a configuration error
\* first).
C15_InvalidParametersRejected ==
    ck.overlap >= ck.chunk_size => (ck.chunks = <<>> /\ ck.pc # "done")

\* the request of task t is refused with status pc and has had no effect: no
\* embedding, search or model call, the cache, the session memories and the
\* store as they were
RefusedWithoutEffect(t, pc) ==
    /\ tasks'[t].pc = pc
    /\ tasks'[t].embed_calls = 0
    /\ tasks'[t].search_calls = 0
    /\ tasks'[t].llm_calls = 0
    /\ cache' = cache
    /\ memories' = memories
    /\ db' = db

AssistantMessages(d) ==
    {i \in 1..Len(d.messages) : d.messages[i].role = "assistant"}

\* the step in which RAGService() or a stage of query raised in the request
\* of task t
ApiFailed(t) ==
    /\ tasks'[t].via = "api"
    /\ tasks[t].pc \in {"select", "flush", "embed", "llm"}
    /\ tasks'[t].failed_at \in {"init", "embed", "search", "llm"}

\* C17: when RAGService() or the embedding, search or model call of a
\* /query request raises, the request ends with HTTP 500 whatever the
\* stage, no QueryResponse is returned and no assistant Message is added.
C17_GenericFailure ==
    [][\A t \in Tasks : ApiFailed(t) =>
         /\ tasks'[t].pc = "http500"
         /\ tasks'[t].result = None
         /\ AssistantMessages(db') = AssistantMessages(db)]_vars

\* C17 witness: one request failed when the service was built and another at
\* the model call, both ended with HTTP 500, and the store holds their two
\* user messages and no assistant message
C17_Witness ==
    \E t \in Tasks, u \in Tasks :
        /\ tasks[t].pc = "http500" /\ tasks[t].failed_at = "init"
        /\ tasks[u].pc = "http500" /\ tasks[u].failed_at = "llm"
        /\ Len(db.messages) = 2
        /\ AssistantMessages(db) = {}

\* C18: a login attempt is answered 401 "Invalid credentials" when the email
\* is unknown or the password is not the user's, 403 when the password is
\* the user's and the user is inactive, and 200 with a bearer token for the
\* user when the password is the user's and the user is active; a token is
\* issued in the last case only.
C18_LoginOutcome ==
    [][auth'.last # auth.last =>
         LET a == auth'.last
             r == a.response
             known == a.email \in DOMAIN auth.users
             right == known /\ auth.users[a.email].password = a.password
             active == known /\ auth.users[a.email].is_active
         IN  /\ ~right => (r.status = 401 /\ r.detail = "Invalid credentials")
             /\ (right /\ ~active) => r.status = 403
             /\ (right /\ active) =>
                   /\ r.status = 200
                   /\ r.token # None
                   /\ r.token.token_type = "bearer"
                   /\ r.token.access_token.sub = a.email
             /\ r.token # None => (right /\ active)
             /\ r.status # 200 => r.token = None]_vars

\* C18 witness: an inactive user who gave a wrong password was answered 401
\* while another, active user exists
C18_Witness ==
    /\ auth.last # None
    /\ auth.last.email \in DOMAIN auth.users
    /\ ~auth.users[auth.last.email].is_active
    /\ auth.users[auth.last.email].password # auth.last.password
    /\ auth.last.response.status = 401
    /\ \E e \in DOMAIN auth.users : auth.users[e].is_active

\* C19: for queries running concurrently on one RAGService, at every moment
\* (and so once all have completed) every session's memory is the last
\* min(n, _memory_window) of the n exchanges appended to it, in the order in
\* which their queries completed: none is lost, none is there twice, and a
\* session none of them completed on is as it was.
C19_ConcurrentAppend ==
    \A s \in Sessions :
        /\ Exch(memories[0], s) = LastK(appended[0][s], _memory_window)
        /\ Len(Exch(memories[0], s)) = Min(Len(appended[0][s]), _memory_window)

\* C19 witness: two misses on session s1 overlap: one has completed while
\* the other, which read the memory before that, is still at the model
\* call; s1 held five exchanges before and holds five now, the last one the
\* completed query's, and the other query's history does not have it
C19_Witness ==
    \E t \in Tasks, u \in Tasks :
        /\ tasks[t].pc = "returned" /\ ~tasks[t].hit
        /\ tasks[u].pc = "llm"
        /\ tasks[t].session_id = "s1" /\ tasks[u].session_id = "s1"
        /\ Len(appended[0]["s1"]) = 6
        /\ Len(memories[0]["s1"]) = 5
        /\ memories[0]["s1"][5] = Exchange(tasks[t].question, tasks[t].answer)
        /\ ExchangesOf(tasks[u].history) = PriorLog

\* the stages of query, in the order of the code
StageOrder ==
    <<"cache_lookup", "embed", "search", "context", "history", "model",
      "memory", "cache_write">>

IsPrefix(s, t) == Len(s) <= Len(t) /\ s = SubSeq(t, 1, Len(s))

\* C20: the stages a query has run are always an initial part of the order
\* cache lookup, embed, search, context assembly, history formatting, model
\* invocation, memory update, cache write; and a step that writes a cache
\* entry or appends an exchange is the step of a query whose model call has
\* returned, which runs the memory update and then the cache write.
C20_StageOrder ==
    [][/\ \A t \in Tasks : IsPrefix(tasks'[t].trace, StageOrder)
       /\ Writes => \E t \in Tasks :
             /\ tasks[t].pc = "llm"
             /\ tasks[t].trace = SubSeq(StageOrder, 1, 6)
             /\ tasks'[t].trace = StageOrder]_vars

\* C20 witness: one query has run all eight stages and the other has
\* stopped after the search raised
C20_Witness ==
    \E t \in Tasks, u \in Tasks :
        /\ tasks[t].pc = "returned" /\ tasks[t].trace = StageOrder
        /\ tasks[u].pc = "raised"
        /\ tasks[u].trace = <<"cache_lookup", "embed", "search">>

\* C21: for every token count N >= 0 and every 0 <= overlap < chunk_size the
\* loop of chunk_text terminates: each iteration runs with the start below
\* N and moves it up by exactly chunk_size - overlap (a strict increase),
\* the loop goes on exactly while the start is below N, and the call
\* returns.
C21_Terminates ==
    /\ [][(ck.pc = "loop" /\ ck.overlap < ck.chunk_size
             /\ Len(ck'.chunks) > Len(ck.chunks)) =>
              /\ ck.start < Len(ck.tokens)
              /\ ck'.start = ck.start + (ck.chunk_size - ck.overlap)
              /\ ck'.start > ck.start
              /\ ck'.pc = "done" <=> ck'.start >= Len(ck.tokens)]_vars
    /\ (ck.overlap < ck.chunk_size) ~> (ck.pc = "done")

\* C21 witness: five tokens cut with chunk_size 2 and overlap 1 took five
\* iterations, the start moving 0, 1, 2, 3, 4, and the call returned with
\* the start at 5
C21_Witness ==
    /\ ck.pc = "done"
    /\ Len(ck.tokens) = 5 /\ ck.chunk_size = 2 /\ ck.overlap = 1
    /\ Len(ck.chunks) = 5 /\ ck.start = 5
    /\ \A i \in 1..5 : ck.chunks[i].lo = i - 1

\* the step in which the query of task t went from the embedding's return
\* to the model call (steps 3 to 6)
Assembled(t) == tasks[t].pc = "embed" /\ tasks'[t].pc = "llm"

\* C22 as claimed: a query that fails at embed, search or model invocation
\* leaves the session-memory map identical to its pre-query value, the set
\* of session ids included: the step in which it raises changes no store,
\* and no earlier step of it has created an entry.
C22_FailedQueryLeavesStore ==
    [][\A t \in Tasks : Raised(t) =>
          /\ memories' = memories
          /\ ~tasks[t].created]_vars

\* C22 as it holds: a query that fails at embed or search leaves the
\* session-memory map identical to its pre-query value; a query that fails
\* at model invocation leaves every session's exchanges as they were, and
\* the one change it has made to the map is an empty entry for its own
\* session id when that id was unknown, created at the history step before
\* the model was called.
C22_FailedQueryAddsNoExchange ==
    [][\A t \in Tasks :
          LET rag == tasks[t].rag
              s == tasks[t].session_id
          IN  /\ Raised(t) =>
                   /\ memories' = memories
                   /\ tasks'[t].failed_at \in {"embed", "search", "llm"}
                   /\ tasks'[t].failed_at \in {"embed", "search"}
                         => ~tasks[t].created
                   /\ tasks[t].created => s \in DOMAIN memories[rag]
              /\ Assembled(t) =>
                   /\ tasks'[t].created = (s \notin DOMAIN memories[rag])
                   /\ DOMAIN memories'[rag] = DOMAIN memories[rag] \cup {s}
                   /\ \A i \in Instances, x \in Sessions :
                         Exch(memories'[i], x) = Exch(memories[i], x)
                   /\ \A i \in Instances \ {rag} : memories'[i] = memories[i]]_vars

\* C22 witness: the first query on a session failed at the model call, no
\* exchange was ever appended for the session, and the store holds an
\* empty entry for it
C22_Witness ==
    \E t \in Tasks :
        /\ tasks[t].pc = "raised" /\ tasks[t].failed_at = "llm"
        /\ appended[0][tasks[t].session_id] = <<>>
        /\ tasks[t].session_id \in DOMAIN memories[0]
        /\ memories[0][tasks[t].session_id] = <<>>
        /\ \A u \in Tasks \ {t} : tasks[u].pc = "idle"

\* C23: after any interleaving of concurrent /query requests by one user on
\* one session_id, at most one Conversation exists for that (user_id,
\* session_id) pair, and no request's lookup of the pair finds several rows.
C23_OneConversationPerPair ==
    /\ \A u \in Users, s \in Sessions : Cardinality(Matching(db, u, s)) <= 1
    /\ \A t \in Tasks : tasks[t].failed_at # "select"

\* C24: the cache key and the hit/miss decision of a query depend only on
\* the normalized question (and the entry's age), never on session_id or on
\* the session's history: the key is generate_key(question), the query is a
\* hit exactly when that key has an entry at most ttl seconds old, and a
\* query on a question whose entry was stored by a query made in whatever
\* session returns that query's (answer, sources) unchanged.
C24_SessionIndependent ==
    [][started' = started + 1 => \E t \in Tasks :
         LET k == tasks'[t].cache_key IN
         /\ Entered(t)
         /\ k = generate_key(tasks'[t].question)
         /\ tasks'[t].hit
              <=> (k \in DOMAIN cache /\ now - cache[k].timestamp <= _ttl_seconds)
         /\ \A u \in Tasks \ {t} :
               (/\ tasks[u].pc = "returned" /\ ~tasks[u].hit
                /\ tasks[u].cache_key = k
                /\ k \in DOMAIN cache
                /\ cache[k].data = tasks[u].result
                /\ now - cache[k].timestamp <= _ttl_seconds) =>
                   /\ tasks'[t].pc = "returned"
                   /\ tasks'[t].result = tasks[u].result]_vars

\* C24 witness: a query in session s1 was answered by the model; a query in
\* session s2, which has no memory, on another spelling of the question
\* returned the same (answer, sources) from the cache
C24_Witness ==
    \E t \in Tasks, u \in Tasks :
        /\ tasks[u].pc = "returned" /\ ~tasks[u].hit
        /\ tasks[u].session_id = "s1" /\ tasks[u].question = <<"a">>
        /\ tasks[t].pc = "returned" /\ tasks[t].hit
        /\ tasks[t].session_id = "s2" /\ tasks[t].question = <<"A", " ">>
        /\ tasks[t].cache_key = tasks[u].cache_key
        /\ tasks[t].result = tasks[u].result
        /\ Exch(memories[0], "s1") # <<>>
        /\ "s2" \notin DOMAIN memories[0]

\* the step in which a GET /history request is answered with a list of
\* messages: no /query request moves and the answer is that of the step
Listed ==
    /\ ret'.op = "get_chat_history" /\ ~ret'.raised
    /\ started' = started /\ now' = now
    /\ \A t \in Tasks : tasks'[t].pc = tasks[t].pc

\* C25: get_chat_history for user U and session_id s returns only messages
\* of a Conversation whose user_id is U and whose session_id is s (each
\* message of it once, as stored); a user who has no Conversation under s,
\* whoever else has one, receives an empty list and so never another user's
\* messages; and the messages are in non-decreasing created_at order.
C25_HistoryAccess ==
    [][Listed =>
          LET U == ret'.value.user
              s == ret'.value.session_id
              msgs == ret'.value.response.messages
          IN  /\ ret'.value.response.session_id = s
              /\ \A i \in 1..Len(msgs) :
                    /\ msgs[i].id \in 1..Len(db.messages)
                    /\ msgs[i] = MessageResponse(db, msgs[i].id)
                    /\ LET c == db.messages[msgs[i].id].conversation_id IN
                       /\ db.conversations[c].user_id = U
                       /\ db.conversations[c].session_id = s
              /\ \A i, j \in 1..Len(msgs) : msgs[i].id = msgs[j].id => i = j
              /\ \A c \in Matching(db, U, s) :
                    \A m \in MessagesOf(db, c) :
                       \E i \in 1..Len(msgs) : msgs[i].id = m
              /\ Matching(db, U, s) = {} => msgs = <<>>
              /\ \A i \in 1..(Len(msgs) - 1) :
                    msgs[i].created_at <= msgs[i + 1].created_at]_vars

\* C25 witness: u1 and u2 each hold a conversation under s1 with messages;
\* the history of u2 for s1 lists u2's two messages, stored a second apart,
\* the earlier first, and none of u1's
C25_Witness ==
    /\ ret.op = "get_chat_history" /\ ~ret.raised
    /\ ret.value.user = "u2" /\ ret.value.session_id = "s1"
    /\ \E c \in Matching(db, "u1", "s1") : MessagesOf(db, c) # {}
    /\ Len(ret.value.response.messages) = 2
    /\ ret.value.response.messages[1].role = "user"
    /\ ret.value.response.messages[2].role = "assistant"
    /\ ret.value.response.messages[1].created_at < ret.value.response.messages[2].created_at
    /\ \A i \in 1..2 :
          db.conversations[db.messages[ret.value.response.messages[i].id].conversation_id].user_id
             = "u2"

\* the rows of messages that the step added
AddedMessages ==
    SubSeq(db'.messages, Len(db.messages) + 1, Len(db'.messages))

\* the user Message and the assistant Message of the request of task t, as
\* the step stores them
UserMessage(t) ==
    [conversation_id |-> tasks'[t].conversation, role |-> "user",
     content |-> tasks'[t].question, sources |-> None, created_at |-> now]

AssistantMessage(t) ==
    [conversation_id |-> tasks'[t].conversation, role |-> "assistant",
     content |-> tasks'[t].result.answer,
     sources |-> IF tasks'[t].result.sources # <<>>
                 THEN json_dumps(tasks'[t].result.sources) ELSE None,
     created_at |-> now]

\* C26: each /query request that returns a QueryResponse adds exactly one
\* user Message followed by exactly one assistant Message to the caller's
\* Conversation for that session, whether the answer came from the cache or
\* from the model.  A request answered from the cache adds both in the step
\* in which it finds its conversation, and its RAGService holds no session
\* memory; a request answered by the model adds the user Message alone when
\* it finds its conversation, nothing while the model is awaited, and the
\* assistant Message alone when it returns.  No step removes or changes a
\* stored message.
C26_HistoryGrows ==
    [][/\ Len(db'.messages) >= Len(db.messages)
       /\ SubSeq(db'.messages, 1, Len(db.messages)) = db.messages
       /\ \A t \in Tasks :
             LET before == tasks[t].pc
                 after == tasks'[t].pc
                 c == tasks'[t].conversation
             IN  /\ (before \in {"select", "flush"} /\ after = "responded") =>
                       /\ tasks'[t].hit
                       /\ AddedMessages = <<UserMessage(t), AssistantMessage(t)>>
                       /\ c \in Matching(db', tasks'[t].user, tasks'[t].session_id)
                       /\ memories'[tasks'[t].rag] = EmptyDict
                 /\ (before \in {"select", "flush"} /\ after = "embed") =>
                       AddedMessages = <<UserMessage(t)>>
                 /\ (before = "embed" /\ after = "llm") => AddedMessages = <<>>
                 /\ (before = "llm" /\ after = "responded") =>
                       /\ ~tasks'[t].hit
                       /\ AddedMessages = <<AssistantMessage(t)>>
                       /\ c = tasks[t].conversation
                       /\ c \in Matching(db', tasks'[t].user, tasks'[t].session_id)
                       /\ \E i \in 1..Len(db.messages) :
                             /\ db.messages[i].conversation_id = c
                             /\ db.messages[i].role = "user"
                             /\ db.messages[i].content = tasks'[t].question]_vars

\* C26 witness: one user's two requests on a session have both returned,
\* the first answered by the model and the second from the cache, and the
\* conversation holds user, assistant, user, assistant
C26_Witness ==
    \E t \in Tasks, u \in Tasks :
        /\ tasks[t].pc = "responded" /\ ~tasks[t].hit
        /\ tasks[u].pc = "responded" /\ tasks[u].hit
        /\ tasks[t].user = tasks[u].user
        /\ tasks[t].conversation = tasks[u].conversation
        /\ Len(db.conversations) = 1
        /\ [i \in 1..Len(db.messages) |-> db.messages[i].role]
             = <<"user", "assistant", "user", "assistant">>
        /\ memories[tasks[u].rag] = EmptyDict

====
